---- MODULE Spec2Model ----
(***************************************************************************)
(* Model of ts/utility/utility.py (class Utility): the windowing, split,   *)
(* alignment and block-aggregation functions over time series.             *)
(*                                                                         *)
(* One behaviour is one call: from the idle state a Call action draws the  *)
(* arguments from bounded sets; a function with a while loop is stepped    *)
(* one iteration per action, a loop-free function is computed by an        *)
(* operator and returns in the step that calls it.                         *)
(*                                                                         *)
(* A numpy array is modelled by the sequence of its rows along axis 0.     *)
(* The observation at time step i (1-based) of a 1-D series is the number  *)
(* i; row i of a 2-D series with d columns is <<base+10*i+1, ...,          *)
(* base+10*i+d>>. Observations are therefore pairwise distinct, so a       *)
(* dropped, duplicated or reordered element always shows in the result.    *)
(***************************************************************************)
EXTENDS Integers, Sequences, FiniteSets, TLC

VARIABLES pc, op, args, loc, ret

vars == <<pc, op, args, loc, ret>>

(* ------------------------------ bounds --------------------------------- *)
MaxLen == 10         \* longest series
MaxSeqLength == 3    \* largest seqLength and blockLength
MaxHorizon == 3      \* largest forecastHorizon
MaxCols == 2         \* most columns of a 2-D series
MaxSeqs == 3         \* most chunks in a list handed to convertToTrainSeq
MaxChunk == 3        \* longest chunk handed to convertToTrainSeq
MaxDen == 10         \* largest denominator of a fractional train / val
MaxNeg == 2          \* most negative train / val
MaxDims == 3         \* most dimensions of an array handed to isExoShapeValid
\* Loops are cut after MaxIter iterations; every loop that advances its
\* window start ends within MaxLen iterations, so the cut is only ever met
\* by a loop that does not advance.
MaxIter == MaxLen + 2

\* Python's None, and the absence of a frame or of arguments.
None == [none |-> TRUE]
IsNone(a) == DOMAIN a = {"none"}

\* What a call has returned: <<>> while it runs and after it raised, <<v>>
\* once it returned v.
NoResult == <<>>
Returned(v) == <<v>>

(* ------------------------------ helpers -------------------------------- *)
Min(a, b) == IF a <= b THEN a ELSE b
Max(a, b) == IF a >= b THEN a ELSE b

\* A numpy array: its shape and its rows along axis 0. An argument that is
\* None is the record NoneArray.
NoneArray == None

\* A 1-D series of n observations, shape (n,); base tells series apart.
Series1At(n, base) == [shape |-> <<n>>, rows |-> [i \in 1..n |-> base + i]]
Series1(n) == Series1At(n, 0)
\* A 2-D series of n rows and d columns, shape (n, d).
Series2(n, d, base) ==
    [shape |-> <<n, d>>,
     rows |-> [i \in 1..n |-> [j \in 1..d |-> base + 10 * i + j]]]

\* a.shape[0] and len(a.shape)
Shape0(a) == a.shape[1]
NDim(a) == Len(a.shape)

\* Python's clamping of a slice bound against a sequence of length n.
SliceIndex(i, n) == IF i < 0 THEN Max(i + n, 0) ELSE Min(i, n)

\* rows[lo:hi], with Python's 0-based half-open bounds.
PySliceRows(rows, lo, hi) ==
    LET a == SliceIndex(lo, Len(rows))
        b == SliceIndex(hi, Len(rows))
    IN  IF b <= a THEN <<>> ELSE SubSeq(rows, a + 1, b)

\* data[lo:hi] along axis 0: the trailing dimensions are kept.
PySlice(data, lo, hi) ==
    LET r == PySliceRows(data.rows, lo, hi)
    IN  [shape |-> <<Len(r)>> \o Tail(data.shape), rows |-> r]

\* data[lo:] and data[:hi].
PySliceFrom(data, lo) == PySlice(data, lo, Shape0(data))
PySliceTo(data, hi) == PySlice(data, 0, hi)

\* The outcome of a loop-free function: how the call ended and, if it
\* returned, the value.
Failure(status) == [status |-> status, value |-> None]
ResultOf(r) == IF r.status = "returned" THEN Returned(r.value) ELSE NoResult

\* list(zip(a, b)) for lists of equal length.
Zip(a, b) == [i \in 1..Min(Len(a), Len(b)) |-> <<a[i], b[i]>>]

(* ------------------------------ breakSeq ------------------------------- *)
\* A mutation of SeqEnd: the window is one step too long.
SeqEndLong(seqStart, seqLength, n) == Min(seqStart + seqLength + 1, n)

\* seqEnd = min(seqStart + seqLength, n)
SeqEnd(seqStart, seqLength, n) == Min(seqStart + seqLength, n)

\* The frame of breakSeq before its loop.
BreakSeqFrame(data, seqLength) ==
    [data |-> data, seqLength |-> seqLength, n |-> Shape0(data),
     dataSeq |-> <<>>, seqStart |-> 0]

CallBreakSeq ==
    /\ pc = "idle"
    /\ \E n \in 0..MaxLen, seqLength \in 0..MaxSeqLength :
          /\ op' = "breakSeq"
          /\ args' = [data |-> Series1(n), seqLength |-> seqLength]
          /\ loc' = BreakSeqFrame(Series1(n), seqLength)
    /\ pc' = "breakSeq_while"
    /\ ret' = NoResult

\* One iteration of breakSeq's while loop.
BreakSeqLoop ==
    /\ pc = "breakSeq_while"
    /\ loc.seqStart < loc.n
    /\ Len(loc.dataSeq) < MaxIter
    /\ LET seqEnd == SeqEnd(loc.seqStart, loc.seqLength, loc.n)
       IN  loc' = [loc EXCEPT
                     !.dataSeq = Append(@, PySlice(loc.data, loc.seqStart, seqEnd)),
                     !.seqStart = seqEnd]
    /\ UNCHANGED <<pc, op, args, ret>>

BreakSeqReturn ==
    /\ pc = "breakSeq_while"
    /\ ~(loc.seqStart < loc.n)
    /\ ret' = Returned(loc.dataSeq)
    /\ pc' = "returned"
    /\ UNCHANGED <<op, args, loc>>

(* ---------------------------- breakTrainSeq ---------------------------- *)
\* An optional integer argument: <<>> is None, <<h>> is the integer h.
NoneInt == <<>>
SomeInt(h) == <<h>>

\* A mutation of TargetSeqEnd: the target window is not clipped to the series.
TargetSeqEndUnclipped(seqStart, seqLength, forecastHorizon, n) ==
    seqStart + seqLength + forecastHorizon

\* targetSeqEnd = min(seqStart + seqLength + forecastHorizon, n)
TargetSeqEnd(seqStart, seqLength, forecastHorizon, n) ==
    Min(seqStart + seqLength + forecastHorizon, n)

\* exoSeqEnd = targetSeqEnd - forecastHorizon
ExoSeqEnd(targetSeqEnd, forecastHorizon) == targetSeqEnd - forecastHorizon

\* A mutation of NextSeqStart: the next window starts where the target
\* window ended.
NextSeqStartAtTargetEnd(targetSeqEnd, exoSeqEnd) == targetSeqEnd

\* seqStart = exoSeqEnd
NextSeqStart(targetSeqEnd, exoSeqEnd) == exoSeqEnd

\* A mutation of WindowInvalid: an empty exogenous window is let through.
WindowInvalidStrict(exoSeqEnd, seqStart) == exoSeqEnd < seqStart

\* if exoSeqEnd <= seqStart: break
WindowInvalid(exoSeqEnd, seqStart) == exoSeqEnd <= seqStart

\* The assertion that guards the exogenous branch.
BreakTrainSeqAssert(targetSeries, exogenousSeries, forecastHorizon) ==
    /\ Shape0(targetSeries) = Shape0(exogenousSeries)
    /\ forecastHorizon # NoneInt

CallBreakTrainSeq ==
    /\ pc = "idle"
    /\ \E n \in 0..MaxLen, k \in 0..MaxLen, d \in 1..MaxCols, hasExo \in BOOLEAN,
          seqLength \in 0..MaxSeqLength,
          forecastHorizon \in {SomeInt(h) : h \in 0..MaxHorizon} \cup {NoneInt} :
          LET targetSeries == Series1(n)
              exogenousSeries == IF hasExo THEN Series2(k, d, 0) ELSE NoneArray
          IN  /\ ~hasExo => (k = 0 /\ d = 1)
              /\ op' = "breakTrainSeq"
              /\ args' = [targetSeries |-> targetSeries,
                          exogenousSeries |-> exogenousSeries,
                          seqLength |-> seqLength,
                          forecastHorizon |-> forecastHorizon]
              /\ IF IsNone(exogenousSeries)
                 THEN /\ loc' = BreakSeqFrame(targetSeries, seqLength)
                      /\ pc' = "breakSeq_while"
                 ELSE IF ~BreakTrainSeqAssert(targetSeries, exogenousSeries,
                                              forecastHorizon)
                 THEN /\ loc' = [n |-> n]
                      /\ pc' = "AssertionError"
                 ELSE /\ loc' = [n |-> n, forecastHorizon |-> forecastHorizon[1],
                                 targetSequences |-> <<>>,
                                 exoSequences |-> <<>>, seqStart |-> 0]
                      /\ pc' = "breakTrainSeq_while"
    /\ ret' = NoResult

\* The two window ends of the iteration that starts at loc.seqStart.
CurTargetSeqEnd ==
    TargetSeqEnd(loc.seqStart, args.seqLength, loc.forecastHorizon, loc.n)
CurExoSeqEnd == ExoSeqEnd(CurTargetSeqEnd, loc.forecastHorizon)

\* One iteration of breakTrainSeq's while loop that does not break.
BreakTrainSeqLoop ==
    /\ pc = "breakTrainSeq_while"
    /\ loc.seqStart < loc.n
    /\ ~WindowInvalid(CurExoSeqEnd, loc.seqStart)
    /\ Len(loc.targetSequences) < MaxIter
    /\ loc' = [loc EXCEPT
                 !.targetSequences =
                     Append(@, PySlice(args.targetSeries, loc.seqStart, CurTargetSeqEnd)),
                 !.exoSequences =
                     Append(@, PySlice(args.exogenousSeries, loc.seqStart, CurExoSeqEnd)),
                 !.seqStart = NextSeqStart(CurTargetSeqEnd, CurExoSeqEnd)]
    /\ UNCHANGED <<pc, op, args, ret>>

\* The loop ends (its condition fails, or it breaks); the lists are zipped.
BreakTrainSeqReturn ==
    /\ pc = "breakTrainSeq_while"
    /\ ~(loc.seqStart < loc.n /\ ~WindowInvalid(CurExoSeqEnd, loc.seqStart))
    /\ IF Len(loc.targetSequences) = Len(loc.exoSequences)
       THEN /\ ret' = Returned(Zip(loc.targetSequences, loc.exoSequences))
            /\ pc' = "returned"
       ELSE /\ ret' = NoResult
            /\ pc' = "AssertionError"
    /\ UNCHANGED <<op, args, loc>>

(* -------------------------- convertToTrainSeq -------------------------- *)
\* A mutation of KeepsSeq: a chunk of exactly forecastHorizon steps is kept.
KeepsSeqLoose(n, forecastHorizon) == n >= forecastHorizon

\* The filter of both branches: a chunk of n <= forecastHorizon steps is dropped.
KeepsSeq(n, forecastHorizon) == n > forecastHorizon

\* exogenousSeries[:n - forecastHorizon]
TrimExo(exogenousSeries, n, forecastHorizon) ==
    PySliceTo(exogenousSeries, n - forecastHorizon)

\* The for loop of the exogenous branch, over the pairs not yet visited.
RECURSIVE ConvertPairs(_, _, _)
ConvertPairs(dataSequences, forecastHorizon, trainSequences) ==
    IF Len(dataSequences) = 0
    THEN [status |-> "returned", value |-> trainSequences]
    ELSE LET targetSeries == Head(dataSequences)[1]
             exogenousSeries == Head(dataSequences)[2]
             n == Shape0(targetSeries)
         IN  IF Shape0(targetSeries) # Shape0(exogenousSeries)
             THEN Failure("AssertionError")
             ELSE IF ~KeepsSeq(n, forecastHorizon)
             THEN ConvertPairs(Tail(dataSequences), forecastHorizon, trainSequences)
             ELSE ConvertPairs(Tail(dataSequences), forecastHorizon,
                     Append(trainSequences,
                            <<targetSeries,
                              TrimExo(exogenousSeries, n, forecastHorizon)>>))

convertToTrainSeq(dataSequences, containsExo, forecastHorizon) ==
    IF ~containsExo
    THEN [status |-> "returned",
          value |-> SelectSeq(dataSequences,
                              LAMBDA seq : KeepsSeq(Shape0(seq), forecastHorizon))]
    ELSE ConvertPairs(dataSequences, forecastHorizon, <<>>)

\* The lists handed to convertToTrainSeq: chunk c holds observations
\* 100*c+1, 100*c+2, ...; an exogenous chunk is as long as its target chunk
\* or (a caller's error) one row longer.
ChunkLists(containsExo) ==
    UNION { { [c \in 1..k |->
                 IF containsExo
                 THEN <<Series1At(tl[c], 100 * c),
                        Series2(tl[c] + (IF extra[c] THEN 1 ELSE 0), 1, 100 * c)>>
                 ELSE Series1At(tl[c], 100 * c)] :
              tl \in [1..k -> 0..MaxChunk],
              extra \in IF containsExo THEN [1..k -> BOOLEAN]
                                       ELSE {[c \in 1..k |-> FALSE]} } :
            k \in 0..MaxSeqs }

CallConvertToTrainSeq ==
    /\ pc = "idle"
    /\ \E containsExo \in BOOLEAN, forecastHorizon \in 0..MaxHorizon :
         \E dataSequences \in ChunkLists(containsExo) :
            LET r == convertToTrainSeq(dataSequences, containsExo, forecastHorizon)
            IN  /\ op' = "convertToTrainSeq"
                /\ args' = [dataSequences |-> dataSequences,
                            containsExo |-> containsExo,
                            forecastHorizon |-> forecastHorizon]
                /\ pc' = r.status
                /\ ret' = ResultOf(r)
    /\ loc' = None

(* ---------------------------- trainTestSplit --------------------------- *)
\* train and val are numbers: an int is num/1, a float is num/den with
\* den > 1 (floats with an integral value are not modelled). The model
\* multiplies and rounds exactly, where the code does so in binary floating
\* point. A val that is None is NoneNum.
NoneNum == None
IntNum(k) == [num |-> k, den |-> 1]
IsInt(x) == x.den = 1

RECURSIVE GCD(_, _)
GCD(a, b) == IF b = 0 THEN a ELSE GCD(b, a % b)

\* The values of train and val: fractions in [0, 1), counts, non-integers
\* above 1, and negative integers.
Numbers ==
    { x \in [num : 0..MaxDen, den : 1..MaxDen] :
          x.num < x.den /\ GCD(x.num, x.den) = 1 }
    \cup { IntNum(k) : k \in 1..(MaxLen + 1) }
    \cup { [num |-> 2 * k + 1, den |-> 2] : k \in 1..MaxLen }
    \cup { IntNum(0 - k) : k \in 1..MaxNeg }

\* 0 <= x < 1
InUnit(x) == 0 <= x.num /\ x.num < x.den

\* A mutation of PyRound: ties are rounded up.
PyRoundHalfUp(num, den) ==
    IF 2 * (num % den) >= den THEN (num \div den) + 1 ELSE num \div den

\* round(num/den) of Python 3: to the nearest integer, ties to the even one.
PyRound(num, den) ==
    LET q == num \div den
        r == num % den
    IN  IF 2 * r < den THEN q
        ELSE IF 2 * r > den THEN q + 1
        ELSE IF q % 2 = 0 THEN q ELSE q + 1

\* The count train (or val) stands for: round(x * n) for 0 <= x < 1, else x.
ResolveCount(x, n) ==
    IF InUnit(x) THEN IntNum(PyRound(x.num * n, x.den)) ELSE x

\* x + y and x <= n over the numbers.
Plus(x, y) == [num |-> x.num * y.den + y.num * x.den, den |-> x.den * y.den]
AtMost(x, n) == x.num <= n * x.den

\* A mutation of TrainFits: the first assertion is left out.
TrainFitsAlways(nTrain, n) == TRUE

\* assert (nTrain <= n)
TrainFits(nTrain, n) == AtMost(nTrain, n)

\* assert (nTrain + nVal <= n)
TrainValFit(nTrain, nVal, n) == AtMost(Plus(nTrain, nVal), n)

\* nTrain + nVal, where the validation part ends and the test part starts.
SplitPoint(nTrain, nVal) == nTrain + nVal

trainTestSplit(data, train, val) ==
    LET n == Shape0(data)
        nTrain == ResolveCount(train, n)
    IN  IF ~TrainFits(nTrain, n) THEN Failure("AssertionError")
        ELSE IF IsNone(val)
        THEN \* a slice bound that is a float raises TypeError
             IF ~IsInt(nTrain) THEN Failure("TypeError")
             ELSE [status |-> "returned",
                   value |-> <<PySliceTo(data, nTrain.num),
                               PySliceFrom(data, nTrain.num)>>]
        ELSE LET nVal == ResolveCount(val, n)
             IN  IF ~TrainValFit(nTrain, nVal, n) THEN Failure("AssertionError")
                 ELSE IF ~(IsInt(nTrain) /\ IsInt(nVal)) THEN Failure("TypeError")
                 ELSE [status |-> "returned",
                       value |-> <<PySliceTo(data, nTrain.num),
                                   PySlice(data, nTrain.num,
                                           SplitPoint(nTrain.num, nVal.num)),
                                   PySliceFrom(data,
                                           SplitPoint(nTrain.num, nVal.num))>>]

CallTrainTestSplit ==
    /\ pc = "idle"
    /\ \E n \in 0..MaxLen, train \in Numbers, val \in Numbers \cup {NoneNum} :
          LET r == trainTestSplit(Series1(n), train, val)
          IN  /\ op' = "trainTestSplit"
              /\ args' = [data |-> Series1(n), train |-> train, val |-> val]
              /\ pc' = r.status
              /\ ret' = ResultOf(r)
    /\ loc' = None

(* ------------------- prepareDataPred, prepareDataTrain ----------------- *)
\* np.expand_dims(targetSeries, axis=1): shape (n,) becomes (n, 1).
ExpandDims(a) ==
    [shape |-> <<Shape0(a), 1>>, rows |-> [i \in 1..Shape0(a) |-> <<a.rows[i]>>]]

\* np.concatenate([a, b], axis=1) of two 2-D arrays with as many rows.
ConcatColumns(a, b) ==
    [shape |-> <<Shape0(a), a.shape[2] + b.shape[2]>>,
     rows |-> [i \in 1..Shape0(a) |-> a.rows[i] \o b.rows[i]]]

prepareDataPred(targetSeries, exogenousSeries) ==
    IF ~(IsNone(exogenousSeries) \/ Shape0(targetSeries) = Shape0(exogenousSeries))
    THEN Failure("AssertionError")
    ELSE LET target2 == IF NDim(targetSeries) = 1 THEN ExpandDims(targetSeries)
                                                  ELSE targetSeries
         IN  IF IsNone(exogenousSeries)
             THEN [status |-> "returned", value |-> target2]
             ELSE IF NDim(target2) # NDim(exogenousSeries)
             THEN Failure("ValueError")
             ELSE [status |-> "returned",
                   value |-> ConcatColumns(target2, exogenousSeries)]

\* A mutation of Labels: the labels start at the front of the series.
LabelsFromFront(targetSeries, n, forecastHorizon) == PySliceTo(targetSeries, n)

\* Y = targetSeries[forecastHorizon:]
Labels(targetSeries, n, forecastHorizon) == PySliceFrom(targetSeries, forecastHorizon)

prepareDataTrain(targetSeries, exogenousSeries, forecastHorizon) ==
    IF ~(Shape0(targetSeries) > forecastHorizon) THEN Failure("AssertionError")
    ELSE IF ~(IsNone(exogenousSeries)
              \/ Shape0(targetSeries) = Shape0(exogenousSeries) + forecastHorizon)
    THEN Failure("AssertionError")
    ELSE LET n == Shape0(targetSeries) - forecastHorizon
             X == prepareDataPred(PySliceTo(targetSeries, n), exogenousSeries)
             Y == Labels(targetSeries, n, forecastHorizon)
         IN  IF X.status # "returned" THEN X
             ELSE IF ~(Shape0(X.value) = Shape0(Y)) THEN Failure("AssertionError")
             ELSE IF ~(NDim(Y) = NDim(targetSeries)) THEN Failure("AssertionError")
             ELSE [status |-> "returned", value |-> <<X.value, Y>>]

\* Target series are 1-D or 2-D; exogenous series are None or 2-D (with
\* zero columns too), as the docstrings say.
TargetArrays ==
    { Series1(m) : m \in 0..MaxLen }
    \cup { Series2(m, d, 0) : m \in 0..MaxLen, d \in 1..MaxCols }
ExoArrays ==
    { NoneArray } \cup { Series2(k, d, 500) : k \in 0..MaxLen, d \in 0..MaxCols }

CallPrepareDataTrain ==
    /\ pc = "idle"
    /\ \E targetSeries \in TargetArrays, exogenousSeries \in ExoArrays,
          forecastHorizon \in 0..MaxHorizon :
          LET r == prepareDataTrain(targetSeries, exogenousSeries, forecastHorizon)
          IN  /\ op' = "prepareDataTrain"
              /\ args' = [targetSeries |-> targetSeries,
                          exogenousSeries |-> exogenousSeries,
                          forecastHorizon |-> forecastHorizon]
              /\ pc' = r.status
              /\ ret' = ResultOf(r)
    /\ loc' = None

(* ---------------------------- isExoShapeValid -------------------------- *)
\* A mutation of isExoShapeValid: the column count alone decides, also for
\* numExoVariables = 0.
isExoShapeValidByColumns(exogenousSeries, numExoVariables) ==
    /\ ~IsNone(exogenousSeries)
    /\ NDim(exogenousSeries) = 2
    /\ exogenousSeries.shape[2] = numExoVariables

isExoShapeValid(exogenousSeries, numExoVariables) ==
    IF numExoVariables = 0
    THEN IsNone(exogenousSeries)
    ELSE /\ ~IsNone(exogenousSeries)
         /\ NDim(exogenousSeries) = 2
         /\ exogenousSeries.shape[2] = numExoVariables

\* Only the shape of the array is read: arrays of 1 to MaxDims dimensions.
ShapedArrays ==
    { NoneArray }
    \cup UNION { { [shape |-> sh, rows |-> <<>>] : sh \in [1..nd -> 0..(MaxCols + 1)] } :
                 nd \in 1..MaxDims }

CallIsExoShapeValid ==
    /\ pc = "idle"
    /\ \E exogenousSeries \in ShapedArrays, numExoVariables \in 0..(MaxCols + 1) :
          /\ op' = "isExoShapeValid"
          /\ args' = [exogenousSeries |-> exogenousSeries,
                      numExoVariables |-> numExoVariables]
          /\ ret' = Returned(isExoShapeValid(exogenousSeries, numExoVariables))
    /\ pc' = "returned"
    /\ loc' = None

(* ------------------------ applyBlockAggregateFunc ---------------------- *)
RECURSIVE SumRows(_)
SumRows(rows) == IF Len(rows) = 0 THEN 0 ELSE Head(rows) + SumRows(Tail(rows))

\* The aggregation functions a caller passes: np.sum, np.max, np.min over
\* axis 0 of a non-empty 1-D block.
AggFuncs == {"sum", "max", "min"}
ApplyAggFunc(aggFunc, block) ==
    CASE aggFunc = "sum" -> SumRows(block.rows)
      [] aggFunc = "max" ->
            CHOOSE v \in {block.rows[i] : i \in 1..Len(block.rows)} :
               \A i \in 1..Len(block.rows) : block.rows[i] <= v
      [] aggFunc = "min" ->
            CHOOSE v \in {block.rows[i] : i \in 1..Len(block.rows)} :
               \A i \in 1..Len(block.rows) : v <= block.rows[i]

\* A mutation of TrimPartial: 'no-back' always slices with the negated
\* remainder, also when the remainder is 0.
TrimPartialNegZero(data, blockLength, considerPartial) ==
    IF considerPartial = "no-front"
    THEN PySliceFrom(data, Shape0(data) % blockLength)
    ELSE IF considerPartial = "no-back"
    THEN PySliceTo(data, 0 - (Shape0(data) % blockLength))
    ELSE data

\* The data after the partial block is cut off its front or its back.
TrimPartial(data, blockLength, considerPartial) ==
    IF considerPartial = "no-front"
    THEN PySliceFrom(data, Shape0(data) % blockLength)
    ELSE IF considerPartial = "no-back"
    THEN LET extraLength == Shape0(data) % blockLength
         IN  IF extraLength = 0 THEN data ELSE PySliceTo(data, 0 - extraLength)
    ELSE data

\* numValues = (n + blockLength - 1) // blockLength
NumValues(n, blockLength) == (n + blockLength - 1) \div blockLength

\* endIdx = min(startIdx + blockLength, n)
EndIdx(startIdx, blockLength, n) == Min(startIdx + blockLength, n)

CallApplyBlockAggregateFunc ==
    /\ pc = "idle"
    /\ \E n \in 0..MaxLen, blockLength \in 0..MaxSeqLength, aggFunc \in AggFuncs,
          considerPartial \in {"no-front", "no-back", "yes"} :
          /\ op' = "applyBlockAggregateFunc"
          /\ args' = [data |-> Series1(n), blockLength |-> blockLength,
                      aggFunc |-> aggFunc, considerPartial |-> considerPartial]
          /\ IF blockLength = 0
             THEN \* n % 0 and (n - 1) // 0
                  /\ loc' = None
                  /\ pc' = "ZeroDivisionError"
             ELSE LET data == TrimPartial(Series1(n), blockLength, considerPartial)
                      numValues == NumValues(Shape0(data), blockLength)
                  IN  /\ loc' = [data |-> data, n |-> Shape0(data),
                                 aggSeq |-> [i \in 1..numValues |-> 0],
                                 aggIdx |-> 0, startIdx |-> 0]
                      /\ pc' = "aggregate_while"
    /\ ret' = NoResult

\* One iteration of the aggregation loop; aggSeq[aggIdx] = ... raises
\* IndexError past the last row of aggSeq.
ApplyBlockAggregateFuncLoop ==
    /\ pc = "aggregate_while"
    /\ loc.startIdx < loc.n
    /\ loc.aggIdx < MaxIter
    /\ LET endIdx == EndIdx(loc.startIdx, args.blockLength, loc.n)
       IN  IF loc.aggIdx < Len(loc.aggSeq)
           THEN /\ loc' = [loc EXCEPT
                             !.aggSeq[loc.aggIdx + 1] =
                                 ApplyAggFunc(args.aggFunc,
                                              PySlice(loc.data, loc.startIdx, endIdx)),
                             !.startIdx = endIdx,
                             !.aggIdx = @ + 1]
                /\ pc' = pc
           ELSE /\ loc' = loc
                /\ pc' = "IndexError"
    /\ UNCHANGED <<op, args, ret>>

ApplyBlockAggregateFuncReturn ==
    /\ pc = "aggregate_while"
    /\ ~(loc.startIdx < loc.n)
    /\ ret' = Returned(loc.aggSeq)
    /\ pc' = "returned"
    /\ UNCHANGED <<op, args, loc>>

(* ------------------------------ the system ----------------------------- *)
Init ==
    /\ pc = "idle"
    /\ op = "none"
    /\ args = None
    /\ loc = None
    /\ ret = NoResult

Next ==
    \/ CallBreakSeq
    \/ BreakSeqLoop
    \/ BreakSeqReturn
    \/ CallBreakTrainSeq
    \/ BreakTrainSeqLoop
    \/ BreakTrainSeqReturn
    \/ CallConvertToTrainSeq
    \/ CallTrainTestSplit
    \/ CallPrepareDataTrain
    \/ CallIsExoShapeValid
    \/ CallApplyBlockAggregateFunc
    \/ ApplyBlockAggregateFuncLoop
    \/ ApplyBlockAggregateFuncReturn

Spec == Init /\ [][Next]_vars

(* ------------------------------ properties ----------------------------- *)
Result == ret[1]

\* The rows of a list of chunks, one chunk after the other.
RECURSIVE ConcatRows(_)
ConcatRows(chunks) ==
    IF Len(chunks) = 0 THEN <<>> ELSE Head(chunks).rows \o ConcatRows(Tail(chunks))

\* The time step (0-based) of a row of the 1-D target series and of a row of
\* the exogenous series handed to breakTrainSeq.
TargetTime(row) == row - 1
ExoTime(row) == (row[1] \div 10) - 1

\* C1: for seqLength > 0, the chunks breakSeq returns concatenate to data;
\* every chunk but the last has seqLength rows, the last has 1..seqLength
\* rows, and an empty series gives the empty list.
C1_BreakSeqPartition ==
    (op = "breakSeq" /\ pc = "returned" /\ args.seqLength > 0) =>
        LET k == Len(Result)
        IN  /\ ConcatRows(Result) = args.data.rows
            /\ \A i \in 1..k : Shape0(Result[i]) = Len(Result[i].rows)
            /\ \A i \in 1..(k - 1) : Shape0(Result[i]) = args.seqLength
            /\ k > 0 => Shape0(Result[k]) \in 1..args.seqLength
            /\ Shape0(args.data) = 0 => k = 0

\* A series that breaks into full chunks and a shorter last one.
C1_Witness ==
    /\ op = "breakSeq" /\ pc = "returned" /\ args.seqLength = 3
    /\ Len(Result) = 3
    /\ Shape0(Result[3]) = 1

BreakTrainSeqExoReturned ==
    /\ op = "breakTrainSeq" /\ pc = "returned"
    /\ ~IsNone(args.exogenousSeries)
    /\ args.seqLength >= 1

\* C2: every pair breakTrainSeq returns has a target chunk forecastHorizon
\* rows longer than its exogenous chunk, which is not empty; both start at
\* the same time step; there are as many target chunks as exogenous ones.
C2_TrainPairsAligned ==
    BreakTrainSeqExoReturned =>
        /\ Len(loc.targetSequences) = Len(loc.exoSequences)
        /\ Len(Result) = Len(loc.targetSequences)
        /\ \A i \in 1..Len(Result) :
              LET target == Result[i][1]
                  exo == Result[i][2]
              IN  /\ target = loc.targetSequences[i]
                  /\ exo = loc.exoSequences[i]
                  /\ Len(target.rows) = Len(exo.rows) + loc.forecastHorizon
                  /\ Len(exo.rows) >= 1
                  /\ TargetTime(target.rows[1]) = ExoTime(exo.rows[1])

\* Several pairs, the last one clipped by the end of the series.
C2_Witness ==
    /\ BreakTrainSeqExoReturned
    /\ loc.forecastHorizon = 2
    /\ Len(Result) = 3
    /\ Len(Result[3][1].rows) < args.seqLength + loc.forecastHorizon

\* The time steps a chunk of the target series covers.
TargetTimes(chunk) == { TargetTime(chunk.rows[i]) : i \in 1..Len(chunk.rows) }

\* C9: in breakTrainSeq the window start is the end of the exogenous chunks
\* taken so far; the exogenous chunks are consecutive and concatenate to
\* exogenousSeries[0 : n - forecastHorizon] (to nothing when
\* n <= forecastHorizon); target chunk k spans
\* [start, min(start + seqLength + forecastHorizon, n)) and shares exactly
\* forecastHorizon time steps with its successor.
C9_ExoWindowsConsecutive ==
    (/\ op = "breakTrainSeq"
     /\ pc \in {"breakTrainSeq_while", "returned"}
     /\ ~IsNone(args.exogenousSeries)
     /\ args.seqLength >= 1) =>
        LET n == Shape0(args.targetSeries)
            h == loc.forecastHorizon
            targets == loc.targetSequences
            exos == loc.exoSequences
            K == Len(exos)
            done == ConcatRows(exos)
        IN  /\ loc.seqStart = Len(done)
            /\ done = SubSeq(args.exogenousSeries.rows, 1, Len(done))
            /\ \A k \in 1..K :
                  LET start == TargetTime(targets[k].rows[1])
                  IN  /\ start = ExoTime(exos[k].rows[1])
                      /\ targets[k].rows =
                            SubSeq(args.targetSeries.rows, start + 1,
                                   Min(start + args.seqLength + h, n))
            /\ \A k \in 1..(K - 1) :
                  /\ ExoTime(exos[k + 1].rows[1]) =
                        ExoTime(exos[k].rows[Len(exos[k].rows)]) + 1
                  /\ Cardinality(TargetTimes(targets[k])
                                   \cap TargetTimes(targets[k + 1])) = h
            /\ pc = "returned" =>
                  /\ n > h => done = SubSeq(args.exogenousSeries.rows, 1, n - h)
                  /\ n <= h => K = 0

\* Three windows of a series whose last forecastHorizon exogenous rows
\* appear in no chunk.
C9_Witness ==
    /\ BreakTrainSeqExoReturned
    /\ loc.forecastHorizon = 2
    /\ Len(Result) = 3
    /\ Len(ConcatRows(loc.exoSequences)) = Shape0(args.exogenousSeries) - 2

Abs(x) == IF x < 0 THEN 0 - x ELSE x

\* The integer nearest to a/b (a >= 0, b > 0), the even one of two equally near.
NearestTiesEven(a, b) ==
    CHOOSE r \in 0..((a \div b) + 1) :
        \/ 2 * Abs(r * b - a) < b
        \/ 2 * Abs(r * b - a) = b /\ r % 2 = 0

\* The count the specification gives train or val on a series of n steps.
ClaimedCount(x, n) ==
    IF 0 <= x.num /\ x.num < x.den
    THEN [num |-> NearestTiesEven(x.num * n, x.den), den |-> 1]
    ELSE x

\* train (and val, if given) satisfy P.
SplitArgsSatisfy(P(_)) ==
    P(args.train) /\ (IsNone(args.val) \/ P(args.val))

\* The claimed counts do not exceed the length of the data.
SplitCountsFit ==
    LET n == Shape0(args.data)
        nTrain == ClaimedCount(args.train, n)
    IN  /\ nTrain.num <= n * nTrain.den
        /\ IsNone(args.val) \/
              LET nVal == ClaimedCount(args.val, n)
              IN  nTrain.num * nVal.den + nVal.num * nTrain.den
                     <= n * nTrain.den * nVal.den

\* The call returned train = data[0:nTrain], val = data[nTrain:nTrain+nVal]
\* (if val is given) and test = the rest, which concatenate to data.
SplitReturnedSlices ==
    /\ pc = "returned"
    /\ LET n == Shape0(args.data)
           rows == args.data.rows
           nTrain == ClaimedCount(args.train, n).num
       IN  IF IsNone(args.val)
           THEN /\ Len(Result) = 2
                /\ Result[1].rows = SubSeq(rows, 1, nTrain)
                /\ Result[2].rows = SubSeq(rows, nTrain + 1, n)
                /\ Result[1].rows \o Result[2].rows = rows
           ELSE LET nVal == ClaimedCount(args.val, n).num
                IN  /\ Len(Result) = 3
                    /\ Result[1].rows = SubSeq(rows, 1, nTrain)
                    /\ Result[2].rows = SubSeq(rows, nTrain + 1, nTrain + nVal)
                    /\ Result[3].rows = SubSeq(rows, nTrain + nVal + 1, n)
                    /\ Result[1].rows \o Result[2].rows \o Result[3].rows = rows

IsFractionOrAtLeastOne(x) == x.num >= 0
IsFractionOrIntegerCount(x) == x.num >= 0 /\ (x.num < x.den \/ x.den = 1)

\* C3 as stated: for train and val each in [0, 1) or >= 1, whenever the
\* counts fit the data the call returns the contiguous slices.
C3_AsStated ==
    (/\ op = "trainTestSplit"
     /\ SplitArgsSatisfy(IsFractionOrAtLeastOne)
     /\ SplitCountsFit) => SplitReturnedSlices

\* C3 (amended): for train and val each a fraction in [0, 1), resolved to
\* round(value * n) with ties to the even integer, or an integer count
\* >= 1, whenever the counts fit the data the call returns the contiguous
\* slices train, [val], test, which concatenate to data.
C3_SplitSlices ==
    (/\ op = "trainTestSplit"
     /\ SplitArgsSatisfy(IsFractionOrIntegerCount)
     /\ SplitCountsFit) => SplitReturnedSlices

\* A three-way split whose train count is a tie rounded down to the even
\* integer and whose val count is a tie rounded up to it.
C3_Witness ==
    /\ op = "trainTestSplit" /\ pc = "returned"
    /\ Shape0(args.data) = 5
    /\ args.train = [num |-> 1, den |-> 2]
    /\ ~IsNone(args.val) /\ args.val = [num |-> 3, den |-> 10]
    /\ Len(Result[1].rows) = 2 /\ Len(Result[2].rows) = 2 /\ Len(Result[3].rows) = 1

\* C4: a call whose train count exceeds n, or whose train and val counts
\* together exceed n, ends in an assertion failure and returns nothing.
C4_SplitAssertion ==
    (op = "trainTestSplit" /\ ~SplitCountsFit) =>
        (pc = "AssertionError" /\ ret = NoResult)

\* The train count fits, train and val together do not.
C4_Witness ==
    /\ op = "trainTestSplit" /\ pc = "AssertionError"
    /\ ~IsNone(args.val)
    /\ args.train = [num |-> 3, den |-> 1]
    /\ args.val = [num |-> 1, den |-> 2]
    /\ Shape0(args.data) = 4

\* The target chunk of entry c of the list handed to convertToTrainSeq.
InputTarget(c) ==
    IF args.containsExo THEN args.dataSequences[c][1] ELSE args.dataSequences[c]

\* The positions, in input order, of the entries whose target chunk is
\* longer than forecastHorizon.
RECURSIVE SurvivorsFrom(_)
SurvivorsFrom(c) ==
    IF c > Len(args.dataSequences) THEN <<>>
    ELSE IF Len(InputTarget(c).rows) > args.forecastHorizon
    THEN <<c>> \o SurvivorsFrom(c + 1)
    ELSE SurvivorsFrom(c + 1)

\* C5: convertToTrainSeq returns, in input order and with the target chunk
\* unchanged, exactly the entries whose target chunk is longer than
\* forecastHorizon; with exogenous chunks, each returned exogenous chunk is
\* the input one without its last forecastHorizon rows, so it is
\* forecastHorizon rows shorter than its target chunk.
C5_ConvertKeepsLongChunks ==
    (op = "convertToTrainSeq" /\ pc = "returned") =>
        LET h == args.forecastHorizon
            keep == SurvivorsFrom(1)
        IN  /\ Len(Result) = Len(keep)
            /\ \A j \in 1..Len(Result) :
                  IF args.containsExo
                  THEN LET exoIn == args.dataSequences[keep[j]][2]
                       IN  /\ Result[j][1] = InputTarget(keep[j])
                           /\ Len(Result[j][1].rows) > h
                           /\ Result[j][2].rows =
                                 SubSeq(exoIn.rows, 1, Len(exoIn.rows) - h)
                           /\ Shape0(Result[j][2]) = Shape0(Result[j][1]) - h
                           /\ Shape0(Result[j][2]) = Len(Result[j][2].rows)
                  ELSE /\ Result[j] = InputTarget(keep[j])
                       /\ Len(Result[j].rows) > h

\* Pairs of which the middle one is too short and dropped, the others
\* trimmed.
C5_Witness ==
    /\ op = "convertToTrainSeq" /\ pc = "returned"
    /\ args.containsExo /\ args.forecastHorizon = 2
    /\ Len(args.dataSequences) = 3 /\ Len(Result) = 2
    /\ Len(args.dataSequences[2][1].rows) = 2
    /\ Len(Result[2][2].rows) = 1

\* Row i of the target series as a feature row.
TargetFeatures(i) ==
    IF NDim(args.targetSeries) = 1 THEN <<args.targetSeries.rows[i]>>
                                   ELSE args.targetSeries.rows[i]

\* The preconditions of prepareDataTrain.
PrepareDataTrainPre ==
    /\ Shape0(args.targetSeries) > args.forecastHorizon
    /\ IsNone(args.exogenousSeries) \/
          Shape0(args.exogenousSeries) = Shape0(args.targetSeries) - args.forecastHorizon

\* C6: under its preconditions prepareDataTrain returns (X, Y) of
\* n = m - forecastHorizon rows each, Y[i] = targetSeries[i + forecastHorizon],
\* row i of X = targetSeries[i] followed by exogenous row i, and Y has as
\* many dimensions as targetSeries; otherwise an assertion fails.
C6_PrepareDataTrain ==
    op = "prepareDataTrain" =>
        IF PrepareDataTrainPre
        THEN /\ pc = "returned"
             /\ LET X == Result[1]
                    Y == Result[2]
                    h == args.forecastHorizon
                    n == Shape0(args.targetSeries) - h
                IN  /\ Shape0(X) = n /\ Len(X.rows) = n
                    /\ Shape0(Y) = n /\ Len(Y.rows) = n
                    /\ NDim(Y) = NDim(args.targetSeries)
                    /\ NDim(X) = 2
                    /\ \A i \in 1..n :
                          /\ Y.rows[i] = args.targetSeries.rows[i + h]
                          /\ X.rows[i] =
                                IF IsNone(args.exogenousSeries)
                                THEN TargetFeatures(i)
                                ELSE TargetFeatures(i) \o args.exogenousSeries.rows[i]
        ELSE pc = "AssertionError" /\ ret = NoResult

\* A 1-D target of 10 steps with two exogenous columns and horizon 2.
C6_Witness ==
    /\ op = "prepareDataTrain" /\ pc = "returned"
    /\ NDim(args.targetSeries) = 1 /\ Shape0(args.targetSeries) = 10
    /\ args.forecastHorizon = 2
    /\ ~IsNone(args.exogenousSeries)
    /\ Result[1].shape = <<8, 3>>
    /\ Result[2].shape = <<8>>

\* The data applyBlockAggregateFunc aggregates, after the partial block is
\* removed as considerPartial says.
TrimmedRows ==
    LET rows == args.data.rows
        n == Len(rows)
        extra == n % args.blockLength
    IN  CASE args.considerPartial = "no-front" -> SubSeq(rows, extra + 1, n)
          [] args.considerPartial = "no-back" -> SubSeq(rows, 1, n - extra)
          [] args.considerPartial = "yes" -> rows

\* The i-th consecutive block of blockLength rows (the last may be shorter).
Block(rows, i) ==
    LET r == SubSeq(rows, (i - 1) * args.blockLength + 1,
                    Min(i * args.blockLength, Len(rows)))
    IN  [shape |-> <<Len(r)>>, rows |-> r]

\* C7: applyBlockAggregateFunc returns one row per consecutive block of
\* blockLength rows of the trimmed data, row i being aggFunc of block i:
\* ceil(n'/blockLength) rows; under no-front and no-back every block is
\* full and there are floor(n/blockLength) rows.
C7_BlockAggregate ==
    (op = "applyBlockAggregateFunc" /\ pc = "returned") =>
        LET rows == TrimmedRows
            b == args.blockLength
            m == Len(Result)
        IN  /\ m * b >= Len(rows)
            /\ (m - 1) * b < Len(rows) \/ m = 0
            /\ \A i \in 1..m :
                  Result[i] = ApplyAggFunc(args.aggFunc, Block(rows, i))
            /\ args.considerPartial # "yes" =>
                  /\ m = Shape0(args.data) \div b
                  /\ \A i \in 1..m : Shape0(Block(rows, i)) = b

\* The spec's example under no-back: 7 steps in blocks of 3 give 2 sums,
\* over the first 6 steps.
C7_Witness ==
    /\ op = "applyBlockAggregateFunc" /\ pc = "returned"
    /\ Shape0(args.data) = 7 /\ args.blockLength = 3
    /\ args.considerPartial = "no-back" /\ args.aggFunc = "sum"
    /\ Result = <<6, 15>>

\* The exogenous series is 2-D with exactly numExoVariables columns.
HasColumns(exogenousSeries, numExoVariables) ==
    /\ ~IsNone(exogenousSeries)
    /\ Len(exogenousSeries.shape) = 2
    /\ exogenousSeries.shape[2] = numExoVariables

\* C8 as stated: true iff (numExoVariables = 0 and the series is absent) or
\* the series is 2-D with exactly numExoVariables columns.
C8_AsStated ==
    (op = "isExoShapeValid" /\ pc = "returned") =>
        (Result <=> \/ (args.numExoVariables = 0 /\ IsNone(args.exogenousSeries))
                    \/ HasColumns(args.exogenousSeries, args.numExoVariables))

\* C8 (amended): true iff (numExoVariables = 0 and the series is absent) or
\* (numExoVariables > 0 and the series is 2-D with exactly numExoVariables
\* columns).
C8_ExoShapeValid ==
    (op = "isExoShapeValid" /\ pc = "returned") =>
        (Result <=> \/ (args.numExoVariables = 0 /\ IsNone(args.exogenousSeries))
                    \/ (/\ args.numExoVariables > 0
                        /\ HasColumns(args.exogenousSeries, args.numExoVariables)))

\* A 2-D series with zero columns is not valid for numExoVariables = 0.
C8_Witness ==
    /\ op = "isExoShapeValid" /\ pc = "returned"
    /\ args.numExoVariables = 0
    /\ HasColumns(args.exogenousSeries, 0)
    /\ Result = FALSE

\* Each iteration of a windowing loop under its precondition moves the
\* window start forward; an iteration of breakSeq with seqLength = 0 leaves
\* it where it is and stays in the loop.
LoopStep ==
    /\ (pc = "breakSeq_while" /\ pc' = pc /\ loc.seqLength >= 1) =>
          loc'.seqStart > loc.seqStart
    /\ (pc = "breakTrainSeq_while" /\ pc' = pc /\ args.seqLength >= 1) =>
          loc'.seqStart > loc.seqStart
    /\ (pc = "aggregate_while" /\ pc' = pc /\ args.blockLength >= 1) =>
          loc'.startIdx > loc.startIdx
    /\ (pc = "breakSeq_while" /\ loc.seqLength = 0 /\ loc.n > 0) =>
          (pc' = pc /\ loc'.seqStart = loc.seqStart)

\* A loop under its precondition has run at most n iterations and its
\* window start is within the series.
IterationsBounded ==
    /\ (pc = "breakSeq_while" /\ loc.seqLength >= 1) =>
          (Len(loc.dataSeq) <= loc.n /\ loc.seqStart <= loc.n)
    /\ (pc = "breakTrainSeq_while" /\ args.seqLength >= 1) =>
          (Len(loc.targetSequences) <= loc.n /\ loc.seqStart <= loc.n)
    /\ (pc = "aggregate_while" /\ args.blockLength >= 1) =>
          (loc.aggIdx <= loc.n /\ loc.startIdx <= loc.n)

\* A loop is running under its precondition.
LoopUnderPrecondition ==
    \/ pc = "breakSeq_while" /\ loc.seqLength >= 1
    \/ pc = "breakTrainSeq_while" /\ args.seqLength >= 1
    \/ pc = "aggregate_while" /\ args.blockLength >= 1

\* breakSeq was entered with seqLength = 0 on a non-empty series.
BreakSeqZeroLength ==
    /\ "dataSeq" \in DOMAIN loc
    /\ loc.seqLength = 0
    /\ loc.n > 0

\* C10: under their preconditions the loops of breakSeq, breakTrainSeq and
\* applyBlockAggregateFunc advance the window start on every iteration,
\* have run at most n iterations with the start within the series, and can
\* always take their next step (another iteration, or the return), so they
\* end; breakSeq with seqLength = 0 on a non-empty series never advances
\* and never returns.
C10_LoopsTerminate ==
    /\ [][LoopStep]_vars
    /\ []IterationsBounded
    /\ [](LoopUnderPrecondition => ENABLED Next)
    /\ [](BreakSeqZeroLength => (pc = "breakSeq_while" /\ loc.seqStart = 0))

\* breakTrainSeq returned after as many iterations as the series has steps.
C10_Witness ==
    /\ BreakTrainSeqExoReturned
    /\ Shape0(args.targetSeries) = 4
    /\ Len(loc.targetSequences) = 4

====
